---- MODULE Spec2Model ----
(***************************************************************************)
(* A model of wvtagconvert.py: the field sanitizer (Wikiparser), the three *)
(* grammar extractors (Tag, Vcard, Untagged) and the router and output     *)
(* assembler (parse_wikicode).                                             *)
(*                                                                         *)
(* Python strings are sequences of one-character strings, so that the      *)
(* string methods and the regular expressions of the source are computed   *)
(* character by character.  A call that returns is [err |-> "none", val];  *)
(* a call that raises is [err |-> <exception name>, val |-> <<>>].         *)
(***************************************************************************)
EXTENDS Naturals, Sequences, FiniteSets, TLC

VARIABLES
    sKey,         \* sanitizer run: the field name
    sVal,         \* sanitizer run: the raw value
    sDirect,      \* sanitizer run: result of the field's normalizer on sVal
    sOnce,        \* sanitizer run: result of sanitize({sKey: sVal})
    sTwice,       \* sanitizer run: result of sanitize(sanitize({sKey: sVal}))
    sPc,          \* sanitizer run: "start", "direct", "once", "twice"
    entries,      \* the entries the input text is made of
    input_str,    \* parse_wikicode: the text
    outputformat, \* parse_wikicode: the requested output format
    language,     \* parse_wikicode: the language key, then the language
    lines,        \* input_str.split('\n*')
    found,        \* the Records found so far
    origin,       \* for each Record of found: the line, extractor and mode it is from
    lineIdx,      \* the line the loop is at
    clsIdx,       \* the extractor the loop is at: 1 Tag, 2 Vcard, 3 Untagged
    pc,           \* "call", "strict", "fallback", "output", "returned", "raised"
    result,       \* the list returned; the message of the ValueError raised
    raised,       \* the exception the call ended with, "none" when it has none
    uStr,         \* Untagged.read run: untagged_str
    uChunks,      \* Untagged.read run: chunks
    uTypes,       \* Untagged.read run: chunk_types
    uDict,        \* Untagged.read run: d before it is sanitized
    uRecord,      \* Untagged.read run: the result of the call
    uPc           \* Untagged.read run: "start", "chunked", "classified", "read"

sanVars == <<sKey, sVal, sDirect, sOnce, sTwice, sPc>>

routerVars ==
    <<entries, input_str, outputformat, language, lines, found, origin, lineIdx,
      clsIdx, pc, result, raised>>

untVars == <<uStr, uChunks, uTypes, uDict, uRecord, uPc>>

vars == <<sanVars, routerVars, untVars>>

(***************************************************************************)
(* Bounds of the model.                                                    *)
(***************************************************************************)
MaxLex == 4

MaxEntries == 2

MaxChunks == 3

(***************************************************************************)
(* Python values and string primitives.                                    *)
(***************************************************************************)
Chars(str) == [i \in 1..Len(str) |-> SubSeq(str, i, i)]

Ok(v) == [err |-> "none", val |-> v]

Raise(e) == [err |-> e, val |-> <<>>]

Whitespace == {" ", "\n", "\t"}

LowerLetters == Chars("abcdefghijklmnopqrstuvwxyz")

UpperLetters == Chars("ABCDEFGHIJKLMNOPQRSTUVWXYZ")

LowerSet == {LowerLetters[i] : i \in 1..26}

UpperSet == {UpperLetters[i] : i \in 1..26}

UpperOf == [c \in LowerSet |-> UpperLetters[CHOOSE i \in 1..26 : LowerLetters[i] = c]]

LowerOf == [c \in UpperSet |-> LowerLetters[CHOOSE i \in 1..26 : UpperLetters[i] = c]]

UpperChar(c) == IF c \in LowerSet THEN UpperOf[c] ELSE c

LowerChar(c) == IF c \in UpperSet THEN LowerOf[c] ELSE c

AsciiLetters == LowerSet \cup UpperSet

Lower(s) == [i \in 1..Len(s) |-> LowerChar(s[i])]

RECURSIVE LStrip(_, _)
LStrip(s, cs) ==
    IF s # <<>> /\ s[1] \in cs THEN LStrip(Tail(s), cs) ELSE s

RECURSIVE RStrip(_, _)
RStrip(s, cs) ==
    IF s # <<>> /\ s[Len(s)] \in cs THEN RStrip(SubSeq(s, 1, Len(s) - 1), cs) ELSE s

Strip(s, cs) == RStrip(LStrip(s, cs), cs)

\* s[i : i + len(sub)] == sub
HasAt(s, i, sub) ==
    /\ i >= 1
    /\ i + Len(sub) - 1 <= Len(s)
    /\ \A k \in 1..Len(sub) : s[i + k - 1] = sub[k]

StartsWith(s, p) == HasAt(s, 1, p)

\* str.find: the least index >= from at which sub occurs in s, 0 when none.
Find(s, sub, from) ==
    LET First(hits) == IF hits = {} THEN 0 ELSE CHOOSE i \in hits : \A j \in hits : i <= j
    IN First({i \in from..(Len(s) - Len(sub) + 1) : HasAt(s, i, sub)})

Contains(s, sub) == Find(s, sub, 1) # 0

\* str.count: occurrences found left to right without overlap.
RECURSIVE Count(_, _)
Count(s, sub) ==
    LET After(i) ==
            IF i = 0 THEN 0 ELSE 1 + Count(SubSeq(s, i + Len(sub), Len(s)), sub)
    IN After(Find(s, sub, 1))

\* str.replace(sub, rep)
RECURSIVE Replace(_, _, _)
Replace(s, sub, rep) ==
    LET After(i) ==
            IF i = 0 THEN s
            ELSE SubSeq(s, 1, i - 1) \o rep
                 \o Replace(SubSeq(s, i + Len(sub), Len(s)), sub, rep)
    IN After(Find(s, sub, 1))

\* str.split(sep, 1): one or two pieces.
SplitOnce(s, sep) ==
    LET After(i) ==
            IF i = 0 THEN <<s>>
            ELSE <<SubSeq(s, 1, i - 1), SubSeq(s, i + Len(sep), Len(s))>>
    IN After(Find(s, sep, 1))

\* str.split(sep): every piece.
RECURSIVE Split(_, _)
Split(s, sep) ==
    LET After(i) ==
            IF i = 0 THEN <<s>>
            ELSE <<SubSeq(s, 1, i - 1)>>
                 \o Split(SubSeq(s, i + Len(sep), Len(s)), sep)
    IN After(Find(s, sep, 1))

\* utils.squeeze: runs of whitespace become one space.
squeeze(s) ==
    LET Kept(ix) == [n \in 1..Len(ix) |-> IF s[ix[n]] \in Whitespace THEN " " ELSE s[ix[n]]]
        Heads(i) == s[i] \notin Whitespace \/ i = 1 \/ s[i - 1] \notin Whitespace
    IN Kept(SelectSeq([i \in 1..Len(s) |-> i], Heads))

(***************************************************************************)
(* class Wikiparser: the per-field normalizers.                            *)
(***************************************************************************)
Punct == {";", ".", ",", " "}

Q3 == <<"'", "'", "'">>

Q2 == <<"'", "'">>

HttpScheme == <<"h", "t", "t", "p", ":", "/", "/">>

Terminal == {".", "!", "?"}

\* if d.count(marker) == 1: d = d.replace(marker, '')
DropLone(s, marker) == IF Count(s, marker) = 1 THEN Replace(s, marker, <<>>) ELSE s

\* d[0].upper() + d[1:], then the two lone-marker removals
Emphasis(d) == DropLone(DropLone(<<UpperChar(d[1])>> \o Tail(d), Q3), Q2)

description_NoAppend(d) ==
    LET Marked(d4) == IF d4 = <<>> THEN Raise("IndexError") ELSE Ok(d4)
        Stripped(d1) == IF d1 = <<>> THEN Ok(d1) ELSE Marked(Emphasis(d1))
    IN Stripped(LStrip(d, Punct))

description(d) ==
    LET Marked(d4) ==
            IF d4 = <<>> THEN Raise("IndexError")
            ELSE IF d4[Len(d4)] \notin Terminal THEN Ok(d4 \o <<".">>)
            ELSE Ok(d4)
        Stripped(d1) == IF d1 = <<>> THEN Ok(d1) ELSE Marked(Emphasis(d1))
    IN Stripped(LStrip(d, Punct))

directions(d) == Ok(Strip(Replace(d, <<"'">>, <<>>), Whitespace))

\* The end of a match of \(\s*0\s*\) that starts at i, 0 when none.
MatchParenZero(s, i) ==
    LET Close(rest2) ==
            IF rest2 = <<>> \/ rest2[1] # ")" THEN 0
            ELSE Len(s) - Len(rest2) + 1
        Zero(rest1) ==
            IF rest1 = <<>> \/ rest1[1] # "0" THEN 0
            ELSE Close(LStrip(Tail(rest1), Whitespace))
    IN IF i > Len(s) \/ s[i] # "(" THEN 0
       ELSE Zero(LStrip(SubSeq(s, i + 1, Len(s)), Whitespace))

\* re.sub(r'\(\s*0\s*\)', ' ', s)
RECURSIVE SubParenZero(_)
SubParenZero(s) ==
    LET After(e) ==
            IF e # 0 THEN <<" ">> \o SubParenZero(SubSeq(s, e + 1, Len(s)))
            ELSE <<s[1]>> \o SubParenZero(Tail(s))
    IN IF s = <<>> THEN <<>> ELSE After(MatchParenZero(s, 1))

\* re.sub(r'[()/.\\-]', ' ', s)
SubNumberPunct(s) ==
    [i \in 1..Len(s) |->
        IF s[i] \in {"(", ")", "/", ".", "\\", "-"} THEN " " ELSE s[i]]

\* tuple('+(0123456789'.split()) is the one prefix '+(0123456789'.
numbers(number) ==
    LET Zeroless(n5) == Ok(Replace(n5, <<"'">>, <<>>))
        Squeezed(n4) ==
            IF n4 = <<>> \/ (n4[1] = "0" /\ Len(n4) < 2) THEN Raise("IndexError")
            ELSE Zeroless(IF n4[1] = "0" /\ n4[2] = " "
                          THEN <<"0">> \o SubSeq(n4, 3, Len(n4)) ELSE n4)
        Prefixed(n2) ==
            IF n2 = <<>> THEN Ok(n2)
            ELSE Squeezed(squeeze(SubNumberPunct(
                     IF ~ StartsWith(n2, <<"(">>) THEN SubParenZero(n2) ELSE n2)))
        Stripped(n1) ==
            Prefixed(IF Contains(n1, <<"+">>)
                     THEN <<"+">> \o SplitOnce(n1, <<"+">>)[2]
                     ELSE IF ~ StartsWith(n1, Chars("+(0123456789"))
                          THEN LStrip(n1, AsciiLetters \cup {" ", ":", "/"})
                          ELSE n1)
    IN Stripped(LStrip(number, Punct))

url(u) ==
    LET Bare(st) == IF Contains(st, <<" ">>) THEN SplitOnce(st, <<" ">>)[1] ELSE st
        Schemed(u1) ==
            IF ~ StartsWith(u1, HttpScheme) /\ ~ Contains(u1, <<"/", "/">>)
            THEN Ok(HttpScheme \o u1)
            ELSE Ok(u1)
    IN Schemed(IF StartsWith(u, <<"[">>) THEN Bare(Strip(u, {"[", "]", " "}))
               ELSE u)

email(e) ==
    Ok(Replace(Split(IF Contains(e, <<":">>)
                     THEN Strip(SplitOnce(e, <<":">>)[2], Whitespace)
                     ELSE e,
                     <<" ">>)[1],
               <<"'">>, <<>>))

price(p) ==
    IF p = <<>> THEN Raise("IndexError")
    ELSE Ok(<<UpperChar(p[1])>> \o RStrip(Tail(p), {".", ",", " "}))

default(val) == Ok(val)

K_description == Chars("description")
K_directions == Chars("directions")
K_numbers == Chars("numbers")
K_url == Chars("url")
K_email == Chars("email")
K_price == Chars("price")
K_default == Chars("default")
K_phone == Chars("phone")
K_fax == Chars("fax")
K_name == Chars("name")
K_type == Chars("type")
K_subtype == Chars("subtype")
K_tag == Chars("tag")
K_intl_area_code == Chars("intl-area-code")

\* item_lookup.get(key, key)
item_lookup(key) ==
    IF key \in {K_phone, Chars("mobile"), K_fax, Chars("fax-mobile")} THEN K_numbers
    ELSE key

\* Attributes of each class that are no normalizer: getattr finds them and
\* the call of one raises TypeError.
WikiparserAttrs == {Chars("item_lookup")}

UntaggedAttrs ==
    WikiparserAttrs \cup
            {Chars("search"), Chars("search_generous"), Chars("unique_items"),
             Chars("read"), Chars("parse")}

VcardAttrs ==
    WikiparserAttrs \cup
            {Chars("search"), Chars("read"), Chars("tostring"), Chars("parse")}

TagAttrs ==
    WikiparserAttrs \cup
            {Chars("types"), Chars("search"), Chars("fields"), Chars("template"),
             Chars("template_sleep"), Chars("xml_header"), Chars("formatter"),
             Chars("tagtype_translation"), Chars("read"), Chars("tostring"),
             Chars("parse")}

ClassAttrs(cls) ==
    CASE cls = "Untagged" -> UntaggedAttrs
      [] cls = "Vcard" -> VcardAttrs
      [] cls = "Tag" -> TagAttrs
      [] OTHER -> WikiparserAttrs

\* getattr(cls, func_name, cls.default)(val)
Normalizer(cls, func_name, val) ==
    CASE func_name = K_description -> description(val)
      [] func_name = K_directions -> directions(val)
      [] func_name = K_numbers -> numbers(val)
      [] func_name = K_url -> url(val)
      [] func_name = K_email -> email(val)
      [] func_name = K_price -> price(val)
      [] func_name \in ClassAttrs(cls) -> Raise("TypeError")
      [] OTHER -> default(val)

\* Returns the pair <<key, val>>.
sanitize_item(cls, key, val) ==
    LET Named(looked) ==
            IF StartsWith(looked, Chars("sanitize")) THEN K_default ELSE looked
        Paired(k, r) == IF r.err = "none" THEN Ok(<<k, r.val>>) ELSE r
        Squeezed(k, v) ==
            IF v # <<>> THEN Paired(k, Normalizer(cls, Named(item_lookup(k)), v))
            ELSE Ok(<<k, v>>)
    IN Squeezed(squeeze(key), squeeze(val))

\* A Record (a dict of strings) is a function from its keys to its values.
\* The dict is rebuilt from the sanitized pairs; the first item that raises
\* ends the call.  (Two keys that squeeze to one name keep one of the two
\* values; the keys of this model are already squeezed.)
sanitize(cls, d) ==
    LET Rebuilt(items, keys) ==
            Ok([nk \in keys |->
                  items[CHOOSE k \in DOMAIN d : items[k].val[1] = nk].val[2]])
        Checked(items, bad) ==
            IF bad # {} THEN Raise(items[CHOOSE k \in bad : TRUE].err)
            ELSE Rebuilt(items, {items[k].val[1] : k \in DOMAIN d})
        Sanitized(items) ==
            Checked(items, {k \in DOMAIN d : items[k].err # "none"})
    IN Sanitized([k \in DOMAIN d |-> sanitize_item(cls, k, d[k])])

SanIdle ==
    /\ sKey = <<>>
    /\ sVal = <<>>
    /\ sDirect = Ok(<<>>)
    /\ sOnce = Ok(<<>>)
    /\ sTwice = Ok(<<>>)
    /\ sPc = "idle"

(***************************************************************************)
(* Regular expressions of the extractors, matched as Python's re matches   *)
(* them: leftmost, the alternatives in order, greedy quantifiers longest   *)
(* first, lazy ones shortest first.                                        *)
(***************************************************************************)
Min(S) == CHOOSE x \in S : \A y \in S : x <= y

Max(S) == CHOOSE x \in S : \A y \in S : x >= y

\* The index of the line break that ends the line holding position i
\* (Len(s) + 1 when the line is the last): "." matches up to it.
LineEnd(s, i) ==
    LET First(breaks) == IF breaks = {} THEN Len(s) + 1 ELSE Min(breaks)
    IN First({k \in i..Len(s) : s[k] = "\n"})

\* Tag.types, sorted as Tag.search joins them.
types == <<Chars("buy"), Chars("do"), Chars("drink"), Chars("eat"), Chars("see"),
           Chars("sleep")>>

TypeSet == {types[i] : i \in 1..Len(types)}

\* Tag.search = (<(buy|do|drink|eat|see|sleep).+>.*?</\2>) under DOTALL and
\* IGNORECASE, tried at position i with alternative t: the index of the last
\* character matched, 0 when there is no match.  ".+" takes the last ">"
\* that still has a closing tag after it, ".*?" stops at the first closing
\* tag after that ">".
TagMatchWith(s, low, i, t) ==
    LET Ended(close, closes, gts) ==
            IF gts = {} THEN 0
            ELSE Min({k \in closes : k > Max(gts)}) + Len(close) - 1
        Closed(close, closes) ==
            Ended(close, closes,
                  {j \in (i + Len(t) + 2)..Len(s) :
                      s[j] = ">" /\ \E k \in closes : k > j})
        Closing(close) == Closed(close, {k \in i..Len(s) : HasAt(low, k, close)})
    IN IF ~ HasAt(low, i, <<"<">> \o t) THEN 0
       ELSE Closing(<<"<", "/">> \o t \o <<">">>)

\* The first alternative that matches at i: <<end, type index>>, <<0, 0>> when none.
TagMatchAt(s, low, i) ==
    LET First(ends, alts) ==
            IF alts = {} THEN <<0, 0>> ELSE <<ends[Min(alts)], Min(alts)>>
        Tried(ends) == First(ends, {n \in DOMAIN ends : ends[n] # 0})
    IN IF s[i] # "<" THEN <<0, 0>>
       ELSE Tried([n \in 1..Len(types) |-> TagMatchWith(s, low, i, types[n])])

\* re.findall(Tag.search, s): group 1 of each match, left to right.
RECURSIVE TagFindFrom(_, _, _)
TagFindFrom(s, low, from) ==
    LET At(i, e) == <<SubSeq(s, i, e)>> \o TagFindFrom(s, low, e + 1)
        Leftmost(starts) ==
            IF starts = {} THEN <<>>
            ELSE At(Min(starts), TagMatchAt(s, low, Min(starts))[1])
    IN Leftmost({i \in from..Len(s) : TagMatchAt(s, low, i)[1] # 0})

TagFindAll(s) == TagFindFrom(s, Lower(s), 1)

VcardOpen == Chars("{{vcard")

\* Vcard.search = {{vcard\s*\|.+}}.*$ under MULTILINE and IGNORECASE, tried at
\* position i: the index of the last character matched, 0 when none.  The
\* match runs to the end of the line that holds the "|".
VcardMatchAt(s, low, i) ==
    LET Line(bar, eol) ==
            IF \E q \in (bar + 2)..(eol - 2) : s[q] = "}" /\ s[q + 1] = "}"
            THEN eol - 1
            ELSE 0
        Bar(bar) == Line(bar, LineEnd(s, bar))
        Opened(rest) ==
            IF rest = <<>> \/ rest[1] # "|" THEN 0
            ELSE Bar(Len(s) - Len(rest) + 1)
    IN IF ~ HasAt(low, i, VcardOpen) THEN 0
       ELSE Opened(LStrip(SubSeq(s, i + Len(VcardOpen), Len(s)), Whitespace))

\* re.findall(Vcard.search, s): each match, left to right.
RECURSIVE VcardFindFrom(_, _, _)
VcardFindFrom(s, low, from) ==
    LET At(i, e) == <<SubSeq(s, i, e)>> \o VcardFindFrom(s, low, e + 1)
        Leftmost(starts) ==
            IF starts = {} THEN <<>>
            ELSE At(Min(starts), VcardMatchAt(s, low, Min(starts)))
    IN Leftmost({i \in from..Len(s) : VcardMatchAt(s, low, i) # 0})

VcardFindAll(s) == VcardFindFrom(s, Lower(s), 1)

\* Untagged.search, Untagged.search_generous: the bounds of the lead-in and of
\* the descriptive tail, and of the blanks after the list marker.
LeadMin == 3
LeadMax == 40
TailMin == 20
TailMax == 2000
IndentMax == 3

RECURSIVE RunLen(_, _, _)
RunLen(s, i, cs) == IF i <= Len(s) /\ s[i] \in cs THEN 1 + RunLen(s, i + 1, cs) ELSE 0

AtMost(n, cap) == IF n > cap THEN cap ELSE n

\* The lengths of the optional group (?:\*[:*]*\s{0,3})? at position b, in the
\* order the matcher tries them: the group present, its [:*]* run longest
\* first and its blanks most first, and last the group absent (length 0).
\* PrefixDown lists the lengths with at most a marks.
RECURSIVE PrefixDown(_, _, _)
PrefixDown(s, b, a) ==
    LET Blanks(w) == [n \in 1..(w + 1) |-> 1 + a + (w + 1 - n)]
    IN Blanks(AtMost(RunLen(s, b + 1 + a, Whitespace), IndentMax))
       \o (IF a = 0 THEN <<>> ELSE PrefixDown(s, b, a - 1))

PrefixTries(s, b) ==
    IF b > Len(s) \/ s[b] # "*" THEN <<0>>
    ELSE PrefixDown(s, b, RunLen(s, b + 1, {":", "*"})) \o <<0>>

\* The tail [,. ].{20,2000} at position p: the index of the last character
\* matched, 0 when none.
TailMatchAt(s, p) ==
    LET Rest(avail) == IF avail < TailMin THEN 0 ELSE p + AtMost(avail, TailMax)
    IN IF p > Len(s) \/ s[p] \notin {",", ".", " "} THEN 0
       ELSE Rest(LineEnd(s, p + 1) - (p + 1))

\* The pattern after its optional group, at position p, with the bold marks
\* (restrictive) or without (generous): the index of the last character
\* matched, 0 when none.  The lead-in .{3,40} is taken longest first.
BodyMatchAt(s, p, restrictive) ==
    LET Longest(q, first, ns) ==
            IF ns = {} THEN 0 ELSE TailMatchAt(s, first + Max(ns) + q)
        Lead(q, first, room) ==
            Longest(q, first,
                    {n \in LeadMin..LeadMax :
                        /\ n <= room
                        /\ restrictive => HasAt(s, first + n, Q3)
                        /\ TailMatchAt(s, first + n + q) # 0})
        Marked(q, first) == Lead(q, first, LineEnd(s, first) - first)
        Mark(q) == Marked(q, p + q)
    IN IF restrictive /\ ~ HasAt(s, p, Q3) THEN 0
       ELSE Mark(IF restrictive THEN Len(Q3) ELSE 0)

\* The whole pattern at the line start b: the index of the last character
\* matched, 0 when none.
UntaggedMatchAt(s, b, restrictive) ==
    LET First(ends, good) == IF good = {} THEN 0 ELSE ends[Min(good)]
        Tried(ends) == First(ends, {n \in DOMAIN ends : ends[n] # 0})
        Bodies(tries) ==
            Tried([n \in 1..Len(tries) |->
                     BodyMatchAt(s, b + tries[n], restrictive)])
    IN Bodies(PrefixTries(s, b))

\* re.findall(search, s, flags=re.MULTILINE): each match, left to right.
RECURSIVE UntaggedFindFrom(_, _, _)
UntaggedFindFrom(s, from, restrictive) ==
    LET At(i, e) == <<SubSeq(s, i, e)>> \o UntaggedFindFrom(s, e + 1, restrictive)
        Leftmost(starts) ==
            IF starts = {} THEN <<>>
            ELSE At(Min(starts), UntaggedMatchAt(s, Min(starts), restrictive))
    IN Leftmost({i \in from..Len(s) :
                    /\ i = 1 \/ s[i - 1] = "\n"    \* ^ under re.MULTILINE
                    /\ UntaggedMatchAt(s, i, restrictive) # 0})

UntaggedFindAll(s, restrictive) == UntaggedFindFrom(s, 1, restrictive)

(***************************************************************************)
(* Collaborators that are not in wvtagconvert.py: the heuristics module,   *)
(* utils.html_decode, utils.TolerantFormatter, the translation package and *)
(* ElementSoup.  Each is a fixed function of its arguments here.           *)
(***************************************************************************)
\* dict(pairs): a later pair replaces an earlier one with the same key.
MakeDict(pairs) ==
    LET keys == {pairs[i][1] : i \in 1..Len(pairs)}
    IN [k \in keys |-> pairs[Max({i \in 1..Len(pairs) : pairs[i][1] = k})][2]]

\* d.get(key, '')
Get(d, key) == IF key \in DOMAIN d THEN d[key] ELSE <<>>

\* d[key] = val
Put(d, key, val) == [k \in DOMAIN d \cup {key} |-> IF k = key THEN val ELSE d[k]]

\* sep.join(list)
RECURSIVE Join(_, _)
Join(list, sep) ==
    IF list = <<>> THEN <<>>
    ELSE IF Len(list) = 1 THEN list[1]
    ELSE list[1] \o sep \o Join(Tail(list), sep)

\* heuristics.determine_tagtype(text, lang): (type, subtype).
determine_tagtype(text, lang) == <<Chars("do"), Chars("other")>>

\* heuristics.chunkify(text, lang): the ordered chunks of a fragment.
chunkify(text, lang) == Split(text, <<",">>)

\* heuristics.classify_chunk(chunk, chunk_filter, pos): the chunk's label.
classify_chunk(chunk, lang, pos) == IF pos = 0 THEN K_name ELSE K_description

\* heuristics.merge_chunks(chunks, text): the chunks of one label as one value.
merge_chunks(chunks, text) == Join(chunks, <<" ">>)

\* utils.html_decode: character entities become the characters they name.
html_decode(s) ==
    IF \A i \in 1..Len(s) : s[i] # "&" THEN s
    ELSE Replace(Replace(Replace(Replace(s, Chars("&lt;"), <<"<">>),
                                 Chars("&gt;"), <<">">>),
                         Chars("&quot;"), <<"\"">>),
                 Chars("&amp;"), <<"&">>)

\* The attributes of an opening tag, read from position i on: the pairs
\* <<name, value>> and the index of the ">" that ends the tag (0 when the
\* tag is not closed).  Names are lower-cased, values are what stands
\* between double quotes.
RECURSIVE ParseAttrs(_, _, _)
ParseAttrs(s, i, acc) ==
    LET Quoted(skipped, eq, gt, endq) ==
            IF endq = 0 THEN <<acc, gt>>
            ELSE ParseAttrs(s, endq + 1,
                     Append(acc, <<Lower(Strip(SubSeq(s, skipped, eq - 1), Whitespace)),
                                   SubSeq(s, eq + 2, endq - 1)>>))
        Named(skipped, eq, gt) ==
            IF eq = 0 \/ (gt # 0 /\ gt < eq) \/ ~ HasAt(s, eq + 1, <<"\"">>)
            THEN <<acc, gt>>
            ELSE Quoted(skipped, eq, gt, Find(s, <<"\"">>, eq + 2))
        Skipped(skipped) ==
            Named(skipped, Find(s, <<"=">>, skipped), Find(s, <<">">>, skipped))
    IN Skipped(i + RunLen(s, i, Whitespace))

\* ElementSoup.parse of a string that starts with an element, and the
\* unwrapping of an "html" root (lines 191-193): the first element, as its
\* lower-cased tag, its attributes and the text before its first child.
ElementSoup_parse(s) ==
    LET Element(nameLen, attrs, after, lt) ==
            [tag |-> Lower(SubSeq(s, 2, 1 + nameLen)),
             attrib |-> MakeDict(attrs),
             text |-> IF lt = 0 THEN after ELSE SubSeq(after, 1, lt - 1)]
        Rest(nameLen, attrs, after) ==
            Element(nameLen, attrs, after, Find(after, <<"<">>, 1))
        Parsed(nameLen, parsed) ==
            Rest(nameLen, parsed[1],
                 IF parsed[2] = 0 THEN <<>> ELSE SubSeq(s, parsed[2] + 1, Len(s)))
        Name(nameLen) == Parsed(nameLen, ParseAttrs(s, 2 + nameLen, <<>>))
    IN Name(RunLen(s, 2, AsciiLetters))

(***************************************************************************)
(* class Tag                                                               *)
(***************************************************************************)
Tag_read(tag_str, lang) ==
    LET Described(d2) ==
            Put(d2, K_subtype,
                determine_tagtype(d2[K_name] \o <<" ">> \o d2[K_description],
                                  lang)[2])
        Element(t, d) ==
            IF t.text # <<>> /\ K_name \notin DOMAIN d THEN Raise("KeyError")
            ELSE sanitize("Tag", IF t.text # <<>>
                                 THEN Described(Put(d, K_description, t.text))
                                 ELSE d)
        Parsed(t) == Element(t, Put(t.attrib, K_type, t.tag))
    IN Parsed(ElementSoup_parse(LStrip(tag_str, {"*", ":", " "})))

\* A list comprehension over calls that may raise: the values in order, or
\* the first exception.
RECURSIVE Collect(_)
Collect(rs) ==
    IF rs = <<>> THEN Ok(<<>>)
    ELSE IF rs[1].err # "none" THEN rs[1]
    ELSE LET rest == Collect(Tail(rs))
         IN IF rest.err # "none" THEN rest ELSE Ok(<<rs[1].val>> \o rest.val)

Tag_parse(line, lang) ==
    LET Read(lst) == Collect([i \in 1..Len(lst) |-> Tag_read(lst[i], lang)])
    IN Read(TagFindAll(line))

\* Tag.fields
fields == <<Chars("name"), Chars("alt"), Chars("address"), Chars("directions"),
            Chars("phone"), Chars("tollfree"), Chars("email"), Chars("fax"),
            Chars("url"), Chars("hours"), Chars("checkin"), Chars("checkout"),
            Chars("price"), Chars("lat"), Chars("long")>>

SleepOnly == {Chars("checkin"), Chars("checkout")}

\* Tag.template (sleep = FALSE) and Tag.template_sleep (sleep = TRUE), filled
\* by TolerantFormatter: a field the Record lacks is rendered empty.
RECURSIVE FormatAttrs(_, _, _)
FormatAttrs(d, fs, sleep) ==
    IF fs = <<>> THEN <<>>
    ELSE IF ~ sleep /\ fs[1] \in SleepOnly THEN FormatAttrs(d, Tail(fs), sleep)
    ELSE (IF Len(fs) = Len(fields) THEN <<>> ELSE <<" ">>)
         \o fs[1] \o <<"=", "\"">> \o Get(d, fs[1]) \o <<"\"">>
         \o FormatAttrs(d, Tail(fs), sleep)

FormatTemplate(d, sleep) ==
    <<"<">> \o d[K_tag] \o <<" ">> \o FormatAttrs(d, fields, sleep) \o <<">">>
    \o Get(d, K_description) \o <<"<", "/">> \o d[K_tag] \o <<">">>

Tag_tostring(d, lang) ==
    LET Tagged(d2) ==
            IF Get(d2, K_intl_area_code) # <<>>
            THEN Raise("AttributeError")   \* Vcard.number_fields is not defined
            ELSE Ok(FormatTemplate(d2, d2[K_tag] = Chars("sleep")))
        Typed(lowered) ==
            Tagged(Put(d, K_tag, IF lowered \in TypeSet THEN lowered
                                 ELSE determine_tagtype(lowered, lang)[1]))
    IN IF K_type \notin DOMAIN d THEN Raise("KeyError")
       ELSE Typed(Lower(d[K_type]))

(***************************************************************************)
(* class Untagged                                                          *)
(***************************************************************************)
unique_items == {K_name, Chars("address"), K_phone, K_fax, K_email, K_url}

\* The order of Python's str comparison on the characters of field labels.
CharOrder == Chars("-0123456789ABCDEFGHIJKLMNOPQRSTUVWXYZ_abcdefghijklmnopqrstuvwxyz")

Ord(c) == CHOOSE i \in 1..Len(CharOrder) : CharOrder[i] = c

\* a <= b for strings
RECURSIVE StrLeq(_, _)
StrLeq(a, b) ==
    IF a = <<>> THEN TRUE
    ELSE IF b = <<>> THEN FALSE
    ELSE IF a[1] = b[1] THEN StrLeq(Tail(a), Tail(b))
    ELSE Ord(a[1]) < Ord(b[1])

\* x put into a list sorted by label, before the pairs of its own label.
RECURSIVE InsertUnstable(_, _)
InsertUnstable(x, done) ==
    IF done = <<>> THEN <<x>>
    ELSE IF StrLeq(done[1][1], x[1]) /\ done[1][1] # x[1]
         THEN <<done[1]>> \o InsertUnstable(x, Tail(done))
         ELSE <<x>> \o done

\* x put into a list sorted by label, behind every pair whose label is not
\* greater.
RECURSIVE Insert(_, _)
Insert(x, done) ==
    IF done = <<>> THEN <<x>>
    ELSE IF StrLeq(done[1][1], x[1])
         THEN <<done[1]>> \o Insert(x, Tail(done))
         ELSE <<x>> \o done

\* sorted(pairs, key=operator.itemgetter(0)): by label, pairs of one label in
\* their original order.
RECURSIVE SortFrom(_, _)
SortFrom(pairs, acc) ==
    IF pairs = <<>> THEN acc ELSE SortFrom(Tail(pairs), Insert(pairs[1], acc))

sorted(pairs) == SortFrom(pairs, <<>>)

\* The length of the run of neighbours that starts pairs and has one label.
RECURSIVE RunOf(_, _)
RunOf(pairs, n) ==
    IF n = Len(pairs) \/ pairs[n + 1][1] # pairs[1][1] THEN n ELSE RunOf(pairs, n + 1)

\* itertools.groupby(pairs, key=operator.itemgetter(0)): the runs of
\* neighbours with one label, as <<label, the chunks of the run>>.
RECURSIVE groupby(_)
groupby(pairs) ==
    LET Run(run) ==
            <<<<pairs[1][1], [i \in 1..run |-> pairs[i][2]]>>>>
            \o groupby(SubSeq(pairs, run + 1, Len(pairs)))
    IN IF pairs = <<>> THEN <<>> ELSE Run(RunOf(pairs, 1))

\* Lines 132-137: the Record before it is sanitized.
Untagged_assemble(tag_type, chunk_types, chunks, untagged_str) ==
    LET Typed(d) == Put(Put(d, K_type, tag_type[1]), K_subtype, tag_type[2])
        Merged(groups) ==
            Typed(MakeDict([i \in 1..Len(groups) |->
                     <<groups[i][1],
                       IF groups[i][1] \in unique_items THEN groups[i][2][1]
                       ELSE merge_chunks(groups[i][2], untagged_str)>>]))
    IN Merged(groupby(sorted([i \in 1..Len(chunks) |->
                                 <<chunk_types[i], chunks[i]>>])))

Untagged_read(untagged_str, lang) ==
    LET Chunked(chunks) ==
            sanitize("Untagged",
                Untagged_assemble(determine_tagtype(untagged_str, lang),
                                  [i \in 1..Len(chunks) |->
                                      classify_chunk(chunks[i], lang, i - 1)],
                                  chunks, untagged_str))
    IN Chunked(chunkify(untagged_str, lang))

Untagged_parse(line, lang, restrictive) ==
    LET Read(lst) == Collect([i \in 1..Len(lst) |-> Untagged_read(lst[i], lang)])
    IN Read(UntaggedFindAll(line, restrictive))

UntIdle ==
    /\ uStr = <<>>
    /\ uChunks = <<>>
    /\ uTypes = <<>>
    /\ uDict = <<>>
    /\ uRecord = Ok(<<>>)
    /\ uPc = "idle"

(***************************************************************************)
(* class Vcard                                                             *)
(***************************************************************************)
Vcard_read(vcard_str, lang) ==
    LET Subtyped(d2, desc) ==
            IF Get(d2, K_subtype) = <<>> /\ desc # <<>>
            THEN Put(d2, K_subtype,
                     determine_tagtype(Get(d2, K_name) \o <<" ">> \o desc, lang)[2])
            ELSE d2
        Described(d2) == sanitize("Vcard", Subtyped(d2, d2[K_description]))
        Keyed(d, trailing) ==
            Described(IF K_description \in DOMAIN d THEN d
                      ELSE Put(d, K_description, trailing))
        Paired(pts, trailing) ==
            IF \E i \in 1..Len(pts) : Len(pts[i]) < 2 THEN Raise("IndexError")
            ELSE Keyed(MakeDict([i \in 1..Len(pts) |->
                           <<Lower(Strip(pts[i][1], Whitespace)), pts[i][2]>>]),
                       trailing)
        Segmented(segments, trailing) ==
            Paired([i \in 1..Len(segments) |-> Split(segments[i], <<"=">>)], trailing)
        Halved(halves) ==
            Segmented(Tail(Split(Strip(halves[1], {"{", "}", ",", ".", " "}),
                                 <<"|">>)),
                      halves[2])
    IN Halved(SplitOnce(vcard_str, <<"}", "}">>))

Vcard_parse(line, lang) ==
    LET Read(lst) == Collect([i \in 1..Len(lst) |-> Vcard_read(lst[i], lang)])
    IN Read(VcardFindAll(line))

\* language.translate_vcard(d): the field names of the target language.
translate_vcard(d, lang) == d

\* Vcard.tostring: what is handed to the lang's format_vcard.
Vcard_tostring(d, lang) ==
    LET Formatted(t) == Ok([format_vcard |-> [k \in DOMAIN t \ {K_tag} |-> t[k]]])
    IN Formatted(translate_vcard(d, lang))

(***************************************************************************)
(* parse_wikicode.  The input text is a list of entries joined by the      *)
(* list-item delimiter; an entry is a Tag element, a Card block or plain   *)
(* prose, kept beside the text it is rendered to.                          *)
(***************************************************************************)
TagEntry(category, attrs, text) ==
    [dialect |-> "tag", category |-> Chars(category), parts |-> attrs, text |-> Chars(text)]

CardEntry(segments, text) ==
    [dialect |-> "card", category |-> <<>>, parts |-> segments, text |-> Chars(text)]

PlainEntry(text) ==
    [dialect |-> "plain", category |-> <<>>, parts |-> <<>>, text |-> Chars(text)]

A(key, value) == <<Chars(key), Chars(value)>>

\* The text of an entry in its dialect.
Render(e) ==
    CASE e.dialect = "tag" ->
            <<"<">> \o e.category
            \o Join([i \in 1..Len(e.parts) |->
                        <<" ">> \o e.parts[i][1] \o <<"=", "\"">> \o e.parts[i][2] \o <<"\"">>],
                    <<>>)
            \o <<">">> \o e.text \o <<"<", "/">> \o e.category \o <<">">>
      [] e.dialect = "card" ->
            Chars("{{vcard")
            \o Join([i \in 1..Len(e.parts) |-> <<"|">> \o e.parts[i]], <<>>)
            \o <<"}", "}">> \o e.text
      [] OTHER -> e.text

WellFormedTag ==
    TagEntry("eat", <<A("name", "Foo"), A("phone", "030 5")>>, "fish &amp; chips")

EmptyTextTag == TagEntry("see", <<A("name", "Bar")>>, "")

NamelessTag == TagEntry("do", <<A("url", "x.org")>>, "fun")

ZeroPhoneTag == TagEntry("eat", <<A("name", "Foo"), A("phone", "0")>>, "")

AreaCodeTag == TagEntry("sleep", <<A("name", "Inn"), A("intl-area-code", "49")>>, "")

WellFormedCard == CardEntry(<<Chars(" type=eat "), Chars(" name=Foo ")>>, " nice place")

TypelessCard == CardEntry(<<Chars("name=Foo")>>, "")

BareSegmentCard == CardEntry(<<Chars("type=eat"), Chars("name=Foo"), <<>>>>, "")

EmphasisCard == CardEntry(<<Chars("type=eat"), Chars("name=Foo")>>, "''")

BoldProse == PlainEntry("'''Foo Bar''', good food and drinks")

LeadProse == PlainEntry("Foo Bar, good food and drinks")

ShortProse == PlainEntry("closed")

CardInTag ==
    [dialect |-> "tag", category |-> Chars("eat"), parts |-> <<A("name", "Foo")>>,
     text |-> Render(CardEntry(<<Chars("type=eat"), Chars("name=Baz")>>, ""))]

Pool ==
    {WellFormedTag, EmptyTextTag, NamelessTag, ZeroPhoneTag, AreaCodeTag,
     WellFormedCard, TypelessCard, BareSegmentCard, EmphasisCard,
     BoldProse, LeadProse, ShortProse, CardInTag}

Formats == {"raw", "json", "tag", "vcard", "xml"}

ValidFormats == {"raw", "json", "tag", "vcard"}

LanguageKeys == {"english", "klingon"}

\* The modules of the translation package.
KnownLanguages == {"english"}

\* Lines 224-227
ResolveLanguage(key) == IF key \in KnownLanguages THEN key ELSE "english"

\* A delimiter no text holds: the text stays in one piece.
Delimiter_Absent == <<"\n", "\n">>

\* Lines 230 and 239: input_str.split('\n*')
Delimiter == <<"\n", "*">>

Inputs == UNION {[1..n -> Pool] : n \in 1..MaxEntries}

RouterIdle ==
    /\ entries = <<>>
    /\ input_str = <<>>
    /\ outputformat = ""
    /\ language = ""
    /\ lines = <<>>
    /\ found = <<>>
    /\ origin = <<>>
    /\ lineIdx = 0
    /\ clsIdx = 0
    /\ pc = "idle"
    /\ result = <<>>
    /\ raised = "none"

Init ==
    /\ entries \in Inputs
    /\ input_str = Join([i \in 1..Len(entries) |-> Render(entries[i])], <<"\n", "*", " ">>)
    /\ outputformat \in Formats
    /\ language \in LanguageKeys
    /\ lines = <<>>
    /\ found = <<>>
    /\ origin = <<>>
    /\ lineIdx = 0
    /\ clsIdx = 0
    /\ pc = "call"
    /\ result = <<>>
    /\ raised = "none"
    /\ SanIdle
    /\ UntIdle

\* Lines 224-231: the language is resolved, the text decoded and split.
Start ==
    /\ pc = "call"
    /\ language' = ResolveLanguage(language)
    /\ input_str' = html_decode(input_str)
    /\ lines' = Split(input_str', Delimiter)
    /\ lineIdx' = 1
    /\ clsIdx' = 1
    /\ pc' = "strict"
    /\ UNCHANGED <<entries, outputformat, found, origin, result, raised, sanVars, untVars>>

\* found += cls.parse(line, language), or the exception it raises.
Extend(r, cls, restrictive) ==
    IF r.err # "none"
    THEN /\ raised' = r.err
         /\ pc' = "raised"
         /\ UNCHANGED <<found, origin, lineIdx, clsIdx>>
    ELSE /\ found' = found \o r.val
         /\ origin' = origin \o [i \in 1..Len(r.val) |->
                                    [line |-> lineIdx, cls |-> cls, restrictive |-> restrictive]]
         /\ raised' = raised

\* The end of the strict pass always starts the generous pass.
Advance_AlwaysFallback ==
    IF lineIdx < Len(lines)
    THEN /\ lineIdx' = lineIdx + 1
         /\ clsIdx' = 1
         /\ pc' = pc
    ELSE /\ lineIdx' = 1
         /\ clsIdx' = 1
         /\ pc' = IF pc = "strict" THEN "fallback" ELSE "output"

\* After the last extractor of a line: the next line, or the end of the pass.
Advance ==
    IF lineIdx < Len(lines)
    THEN /\ lineIdx' = lineIdx + 1
         /\ clsIdx' = 1
         /\ pc' = pc
    ELSE /\ lineIdx' = 1
         /\ clsIdx' = 1
         /\ pc' = IF pc = "strict" /\ found' = <<>> THEN "fallback" ELSE "output"

StrictLine == <<"*">> \o lines[lineIdx]

\* Lines 230-236, cls = Tag
TagParse ==
    /\ pc = "strict" /\ clsIdx = 1
    /\ LET Parsed(r) ==
               /\ Extend(r, "Tag", TRUE)
               /\ r.err = "none" => (clsIdx' = 2 /\ pc' = pc /\ lineIdx' = lineIdx)
       IN Parsed(Tag_parse(StrictLine, language))
    /\ UNCHANGED <<entries, input_str, outputformat, language, lines, result, sanVars, untVars>>

\* The Card extractor is passed over on a line that has given a Record.
VcardParse_FirstWins ==
    /\ pc = "strict" /\ clsIdx = 2
    /\ LET Parsed(r) ==
               /\ Extend(r, "Vcard", TRUE)
               /\ r.err = "none" => (clsIdx' = 3 /\ pc' = pc /\ lineIdx' = lineIdx)
       IN Parsed(IF \E i \in 1..Len(origin) : origin[i].line = lineIdx THEN Ok(<<>>)
                 ELSE Vcard_parse(StrictLine, language))
    /\ UNCHANGED <<entries, input_str, outputformat, language, lines, result, sanVars, untVars>>

\* Lines 230-236, cls = Vcard
VcardParse ==
    /\ pc = "strict" /\ clsIdx = 2
    /\ LET Parsed(r) ==
               /\ Extend(r, "Vcard", TRUE)
               /\ r.err = "none" => (clsIdx' = 3 /\ pc' = pc /\ lineIdx' = lineIdx)
       IN Parsed(Vcard_parse(StrictLine, language))
    /\ UNCHANGED <<entries, input_str, outputformat, language, lines, result, sanVars, untVars>>

\* Lines 230-236, cls = Untagged (restrictive), and line 238 after the last line
UntaggedParse ==
    /\ pc = "strict" /\ clsIdx = 3
    /\ LET Parsed(r) ==
               /\ Extend(r, "Untagged", TRUE)
               /\ r.err = "none" => Advance
       IN Parsed(Untagged_parse(StrictLine, language, TRUE))
    /\ UNCHANGED <<entries, input_str, outputformat, language, lines, result, sanVars, untVars>>

\* Lines 238-240: the generous pass over the lines as split
FallbackParse ==
    /\ pc = "fallback"
    /\ LET Parsed(r) ==
               /\ Extend(r, "Untagged", FALSE)
               /\ r.err = "none" => Advance
       IN Parsed(Untagged_parse(lines[lineIdx], language, FALSE))
    /\ UNCHANGED <<entries, input_str, outputformat, language, lines, result, sanVars, untVars>>

\* Lines 242-243
OutputRaw ==
    /\ pc = "output" /\ outputformat = "raw"
    /\ result' = found
    /\ pc' = "returned"
    /\ UNCHANGED <<entries, input_str, outputformat, language, lines, found, origin,
                   lineIdx, clsIdx, raised, sanVars, untVars>>

\* Lines 244-245
OutputJson ==
    /\ pc = "output" /\ outputformat = "json"
    /\ result' = [i \in 1..Len(found) |-> [json_dumps |-> found[i]]]
    /\ pc' = "returned"
    /\ UNCHANGED <<entries, input_str, outputformat, language, lines, found, origin,
                   lineIdx, clsIdx, raised, sanVars, untVars>>

\* The list of strings a serializer gives, or the first exception.
Serialize(rs) ==
    LET Collected(all) ==
            IF all.err = "none"
            THEN result' = all.val /\ pc' = "returned" /\ raised' = raised
            ELSE result' = result /\ pc' = "raised" /\ raised' = all.err
    IN Collected(Collect(rs))

\* Lines 246-247
OutputTag ==
    /\ pc = "output" /\ outputformat = "tag"
    /\ Serialize([i \in 1..Len(found) |-> Tag_tostring(found[i], language)])
    /\ UNCHANGED <<entries, input_str, outputformat, language, lines, found, origin,
                   lineIdx, clsIdx, sanVars, untVars>>

\* Lines 248-249
OutputVcard ==
    /\ pc = "output" /\ outputformat = "vcard"
    /\ Serialize([i \in 1..Len(found) |-> Vcard_tostring(found[i], language)])
    /\ UNCHANGED <<entries, input_str, outputformat, language, lines, found, origin,
                   lineIdx, clsIdx, sanVars, untVars>>

InvalidFormatMessage(fmt) == Chars("Invalid output outputformat: ") \o Chars(fmt)

\* Lines 250-251
OutputInvalid ==
    /\ pc = "output" /\ outputformat \notin ValidFormats
    /\ raised' = "ValueError"
    /\ result' = InvalidFormatMessage(outputformat)
    /\ pc' = "raised"
    /\ UNCHANGED <<entries, input_str, outputformat, language, lines, found, origin,
                   lineIdx, clsIdx, sanVars, untVars>>

Next ==
    \/ Start
    \/ TagParse
    \/ VcardParse
    \/ UntaggedParse
    \/ FallbackParse
    \/ OutputRaw
    \/ OutputJson
    \/ OutputTag
    \/ OutputVcard
    \/ OutputInvalid

Spec == Init /\ [][Next]_vars

(***************************************************************************)
(* The sanitizer on its own: a field name and a raw value are drawn, the   *)
(* field's normalizer is called on the value, the one-field Record is      *)
(* sanitized, and the result is sanitized again.                           *)
(***************************************************************************)
SanKeys == {K_description, K_directions, K_phone, K_url, K_email, K_price, K_name}

\* The pieces the raw values of each field are built from.
Lexemes(key) ==
    CASE key = K_description -> {"a", "'", ".", " ", "!"}
      [] key = K_directions -> {"a", "'", " "}
      [] key = K_phone -> {"0", "5", "(", ")", " ", "+", "a"}
      [] key = K_url -> {"http:", "/", "[", "]", " ", "x"}
      [] key = K_email -> {"m", ":", " ", "'"}
      [] key = K_price -> {"a", ".", " "}
      [] OTHER -> {"a", " "}

RECURSIVE Flatten(_)
Flatten(ss) == IF ss = <<>> THEN <<>> ELSE Chars(ss[1]) \o Flatten(Tail(ss))

RawValues(key) ==
    {Flatten(ss) : ss \in UNION {[1..n -> Lexemes(key)] : n \in 0..MaxLex}}

SanInit ==
    /\ RouterIdle
    /\ UntIdle
    /\ sKey \in SanKeys
    /\ sVal \in RawValues(sKey)
    /\ sDirect = Ok(<<>>)
    /\ sOnce = Ok(<<>>)
    /\ sTwice = Ok(<<>>)
    /\ sPc = "start"

Normalize ==
    /\ sPc = "start"
    /\ sDirect' = Normalizer("Wikiparser", item_lookup(sKey), sVal)
    /\ sPc' = "direct"
    /\ UNCHANGED <<sKey, sVal, sOnce, sTwice, routerVars, untVars>>

Sanitize ==
    /\ sPc = "direct"
    /\ sOnce' = sanitize("Wikiparser", (sKey :> sVal))
    /\ sPc' = "once"
    /\ UNCHANGED <<sKey, sVal, sDirect, sTwice, routerVars, untVars>>

Resanitize ==
    /\ sPc = "once"
    /\ sOnce.err = "none"
    /\ sTwice' = sanitize("Wikiparser", sOnce.val)
    /\ sPc' = "twice"
    /\ UNCHANGED <<sKey, sVal, sDirect, sOnce, routerVars, untVars>>

SanNext == Normalize \/ Sanitize \/ Resanitize

SpecSan == SanInit /\ [][SanNext]_vars

(***************************************************************************)
(* Untagged.read on its own: a fragment is drawn and cut into its chunks,  *)
(* every chunk is given a label (the classifier is free to give any), and  *)
(* the labelled chunks are grouped into the Record.                        *)
(***************************************************************************)
Labels == {K_name, K_url, K_description, K_directions}

Fragments ==
    {Join(cs, <<",">>) : cs \in UNION {[1..n -> {<<"x">>, <<"y">>, <<"z">>}] : n \in 1..MaxChunks}}

UntInit ==
    /\ RouterIdle
    /\ SanIdle
    /\ uStr \in Fragments
    /\ uChunks = <<>>
    /\ uTypes = <<>>
    /\ uDict = <<>>
    /\ uRecord = Ok(<<>>)
    /\ uPc = "start"

\* Line 130
Chunkify ==
    /\ uPc = "start"
    /\ uChunks' = chunkify(uStr, "english")
    /\ uPc' = "chunked"
    /\ UNCHANGED <<uStr, uTypes, uDict, uRecord, sanVars, routerVars>>

\* Lines 131-132: any label for any chunk
Classify ==
    /\ uPc = "chunked"
    /\ uTypes' \in [1..Len(uChunks) -> Labels]
    /\ uPc' = "classified"
    /\ UNCHANGED <<uStr, uChunks, uDict, uRecord, sanVars, routerVars>>

\* Lines 129 and 133-138
Assemble ==
    /\ uPc = "classified"
    /\ uDict' = Untagged_assemble(determine_tagtype(uStr, "english"), uTypes, uChunks,
                                  uStr)
    /\ uRecord' = sanitize("Untagged", uDict')
    /\ uPc' = "read"
    /\ UNCHANGED <<uStr, uChunks, uTypes, sanVars, routerVars>>

UntNext == Chunkify \/ Classify \/ Assemble

SpecUntagged == UntInit /\ [][UntNext]_vars

(***************************************************************************)
(* The claims about the sanitizer, checked under SpecSan.                  *)
(***************************************************************************)
\* C4 as stated: sanitizing a sanitized Record changes nothing, whatever the field.
C4_SanitizeIdempotent == sPc = "twice" => sTwice = sOnce

C8_AlwaysScheme ==
    LET HasScheme(v) ==
            \E i \in 3..Len(v) - 1 :
                /\ v[i] = "/" /\ v[i + 1] = "/"
                /\ v[i - 1] = ":"
                /\ v[i - 2] \in AsciiLetters
    IN (sKey = K_url /\ sPc # "start") =>
           (sDirect.err = "none" /\ HasScheme(sDirect.val))

(***************************************************************************)
(* The claim about Untagged.read, checked under SpecUntagged.              *)
(***************************************************************************)
\* C10: in the Record before it is sanitized, a label of the unique set has
\* the chunk with that label that comes first in the fragment, any other
\* label has the merge of all its chunks in fragment order, and the keys are
\* the labels present (beside type and subtype), one key for each.
C10_FirstWinsOthersMerged ==
    LET Present == {uTypes[i] : i \in 1..Len(uTypes)}
        At(label) == {i \in 1..Len(uChunks) : uTypes[i] = label}
        Nth(I, n) == CHOOSE i \in I : Cardinality({j \in I : j <= i}) = n
        InOrder(I) == [n \in 1..Cardinality(I) |-> uChunks[Nth(I, n)]]
    IN uPc = "read" =>
           /\ DOMAIN uDict = Present \cup {K_type, K_subtype}
           /\ \A label \in Present :
                  IF label \in unique_items
                  THEN uDict[label] = uChunks[Min(At(label))]
                  ELSE uDict[label] = merge_chunks(InOrder(At(label)), uStr)

\* C10 witness: a fragment of three chunks with two names around a
\* description has been read; the first name is kept.
C10_Witness ==
    /\ uPc = "read"
    /\ uChunks = <<<<"y">>, <<"x">>, <<"z">>>>
    /\ uTypes = <<K_name, K_description, K_name>>
    /\ uDict[K_name] = <<"y">>
    /\ uDict[K_description] = <<"x">>

(***************************************************************************)
(* The claims about parse_wikicode, checked under Spec.                    *)
(***************************************************************************)
\* C1: when every entry of the input is a well-formed Tag element or a
\* well-formed Card block, a call with a valid output format returns one
\* item for each entry, found holds one Record for each entry, and every
\* Record has a non-empty type and a non-empty name.
C1_OneRecordPerEntry ==
    LET Digits == {"0", "1", "2", "3", "4", "5", "6", "7", "8", "9"}
        WellValue(v) ==
            /\ \A i \in 1..Len(v) : v[i] \in AsciiLetters \cup Digits \cup {" ", ".", "&", ";"}
            /\ Cardinality({i \in 1..Len(v) : v[i] \in AsciiLetters \cup Digits}) >= 2
        FieldSet == {fields[i] : i \in 1..Len(fields)}
        CardName(seg) == Lower(Strip(Split(seg, <<"=">>)[1], Whitespace))
        CardValue(seg) == Strip(Split(seg, <<"=">>)[2], Whitespace)
        WellFormedEntry(e) ==
            /\ e.text = <<>> \/ WellValue(e.text)
            /\ e.dialect \in {"tag", "card"}
            /\ e.dialect = "tag" =>
                   /\ e.category \in TypeSet
                   /\ \E i \in 1..Len(e.parts) : e.parts[i][1] = K_name
                   /\ \A i \in 1..Len(e.parts) :
                          e.parts[i][1] \in FieldSet /\ WellValue(e.parts[i][2])
            /\ e.dialect = "card" =>
                   /\ \A i \in 1..Len(e.parts) :
                          /\ Len(Split(e.parts[i], <<"=">>)) = 2
                          /\ CardName(e.parts[i]) \in FieldSet \cup {K_type}
                          /\ WellValue(CardValue(e.parts[i]))
                   /\ \E i \in 1..Len(e.parts) :
                          CardName(e.parts[i]) = K_type /\ CardValue(e.parts[i]) \in TypeSet
                   /\ \E i \in 1..Len(e.parts) : CardName(e.parts[i]) = K_name
    IN (outputformat \in ValidFormats /\ \A i \in 1..Len(entries) : WellFormedEntry(entries[i])) =>
           /\ pc \notin {"raised", "fallback"}
           /\ pc = "returned" => Len(result) = Len(entries)
           /\ pc \in {"output", "returned"} =>
                  /\ Len(found) = Len(entries)
                  /\ \A i \in 1..Len(found) :
                         /\ Get(found[i], K_type) # <<>>
                         /\ Get(found[i], K_name) # <<>>

\* C1 witness: a Tag element and a Card block, joined by the delimiter, have
\* been converted to two items in the vcard format.
C1_Witness ==
    /\ entries = <<WellFormedTag, WellFormedCard>>
    /\ outputformat = "vcard"
    /\ pc = "returned"
    /\ Len(result) = 2
    /\ found[1][K_name] = Chars("Foo")
    /\ found[2][K_type] = Chars("eat ")

\* C2 as stated: whatever the text and the language key, a call with an
\* output format outside raw, json, tag, vcard ends with a ValueError whose
\* message names the format, and returns no list.
C2_InvalidFormatRejected ==
    (outputformat \notin ValidFormats /\ pc \in {"returned", "raised"}) =>
        /\ pc = "raised"
        /\ raised = "ValueError"
        /\ result = InvalidFormatMessage(outputformat)

\* C3 as stated: with an output format of raw, json, tag or vcard the call
\* never raises, whatever the text.
C3_OnlyInvalidFormatFails ==
    outputformat \in ValidFormats => (pc # "raised" /\ raised = "none")

\* C5 as stated: every Record an extractor returns has the key type and the
\* key subtype, and so has every Record of a raw result.
C5_TypeAndSubtype ==
    /\ \A i \in 1..Len(found) : {K_type, K_subtype} \subseteq DOMAIN found[i]
    /\ (pc = "returned" /\ outputformat = "raw") =>
           \A i \in 1..Len(result) : {K_type, K_subtype} \subseteq DOMAIN result[i]

\* C6: the generous pass is entered exactly when the strict pass ends with no
\* Record, and only from the strict pass; while it runs and after it, no
\* Record of the strict pass is in found; and when the strict pass has given
\* a Record, no Record of found is from the generous pattern.
C6_FallbackIffStrictEmpty ==
    /\ [](/\ pc = "fallback" => \A i \in 1..Len(origin) : ~ origin[i].restrictive
          /\ (\E i \in 1..Len(origin) : origin[i].restrictive) =>
                 \A i \in 1..Len(origin) : origin[i].restrictive)
    /\ [][/\ (pc = "strict" /\ pc' \in {"fallback", "output"}) =>
                 (pc' = "fallback" <=> found' = <<>>)
          /\ pc' = "fallback" => pc \in {"strict", "fallback"}]_vars

\* C6 witness: prose without bold marks, which only the generous pattern
\* matches, has given its Record through the fallback pass.
C6_Witness ==
    /\ entries = <<LeadProse>>
    /\ pc = "returned"
    /\ Len(found) = 1
    /\ origin[1] = [line |-> 1, cls |-> "Untagged", restrictive |-> FALSE]

\* C9 as stated: no fragment contributes Records from more than one grammar.
C9_FirstMatchWins ==
    \A i, j \in 1..Len(origin) :
        origin[i].line = origin[j].line => origin[i].cls = origin[j].cls

\* C9 amended: on every fragment the three extractors are all run, in the
\* order Tag, Card, Untagged, and every match of each is kept: the Records
\* of the strict pass are in the order of their fragments and, within a
\* fragment, of the extractors, and each extractor has contributed as many
\* Records as its pattern has matches in the fragment.
C9_EveryExtractorContributes ==
    LET Rank(cls) == CASE cls = "Tag" -> 1 [] cls = "Vcard" -> 2 [] OTHER -> 3
        From(l, cls) ==
            Cardinality({i \in 1..Len(origin) :
                            /\ origin[i].restrictive
                            /\ origin[i].line = l
                            /\ origin[i].cls = cls})
        Fragment(l) == <<"*">> \o lines[l]
    IN /\ \A i, j \in 1..Len(origin) :
              i < j =>
                  \/ origin[i].line < origin[j].line
                  \/ /\ origin[i].line = origin[j].line
                     /\ Rank(origin[i].cls) <= Rank(origin[j].cls)
       /\ pc = "output" =>
              \A l \in 1..Len(lines) :
                  /\ From(l, "Tag") = Len(TagFindAll(Fragment(l)))
                  /\ From(l, "Vcard") = Len(VcardFindAll(Fragment(l)))
                  /\ From(l, "Untagged") = Len(UntaggedFindAll(Fragment(l), TRUE))

\* C9 witness: a Tag element whose text is a Card block has given a Record
\* of the Tag grammar and a Record of the Card grammar.
C9_Witness ==
    /\ entries = <<CardInTag>>
    /\ pc = "output"
    /\ Len(found) = 2
    /\ origin[1].cls = "Tag" /\ origin[2].cls = "Vcard"
    /\ origin[1].line = 1 /\ origin[2].line = 1

====
